---- MODULE Spec2Model ----
(***************************************************************************)
(* Model of the Stokes<dim> adapter of examples/stokes/source/stokes_ida.cc *)
(* (deal2lkit): the callbacks the IDA time integrator drives -- residual,   *)
(* setup_jacobian, solve_jacobian_system, differential_components and       *)
(* solver_should_restart -- over a small family of meshes.                  *)
(*                                                                         *)
(* The finite-element library is outside the file, so the geometry is a    *)
(* one-dimensional chain: mesh generation g has g+1 cells, g+2 velocity     *)
(* unknowns (block 0) and g+1 pressure unknowns (block 1); cell c carries   *)
(* velocity unknowns c, c+1 and pressure unknown NU+c.  Unknown 1 lies on   *)
(* the Dirichlet boundary.  A locally refined mesh has hanging nodes: the   *)
(* last unknown of each block is then constrained to its neighbour.         *)
(* Numbers are integers; the preconditioner matrix is stored in units of    *)
(* 1/PrecScale so that its (1/alpha) factor stays exact.                    *)
(***************************************************************************)
EXTENDS Integers, Sequences, FiniteSets, TLC

VARIABLES
  use_space_adaptivity,            \* "Refine mesh during transient"
  adaptive_refinement,             \* "Adaptive refinement"
  kelly_threshold,                 \* "Threshold for restart solver"
  max_cells,                       \* "Maximum number of cells"
  triangulation,                   \* the mesh: [gen, hanging, flagged]
  dof_handler,                     \* the mesh the numbering was distributed on
  dofs_per_block,                  \* <<velocity unknowns, pressure unknowns>>
  global_partitioning,             \* the owned unknowns
  dirichlet_bcs,                   \* the time the boundary data is set to
  constraints,                     \* constrained unknown -> [col, inhom]
  jacobian_matrix,
  jacobian_preconditioner_matrix,
  jacobian_op,
  jacobian_preconditioner_op,
  solution,                        \* the integrator's y   (run() hands it the member)
  solution_dot,                    \* the integrator's y'
  distributed_solution,
  distributed_solution_dot,
  sol_tr,                          \* the SolutionTransfer of y  inside solver_should_restart
  sol_dot_tr,                      \* the SolutionTransfer of y' inside solver_should_restart
  pc,                              \* position inside solver_should_restart
  call,                            \* the last adapter call: its arguments and results
  n_assemblies,                    \* assemblies since the matrices were last reinit
  twin                             \* the same run under a larger kelly_threshold

params == <<use_space_adaptivity, adaptive_refinement, kelly_threshold, max_cells>>
discretization == <<dof_handler, dofs_per_block, global_partitioning>>
matrices == <<jacobian_matrix, jacobian_preconditioner_matrix, n_assemblies>>
operators == <<jacobian_op, jacobian_preconditioner_op>>
transfers == <<sol_tr, sol_dot_tr>>
vars == <<use_space_adaptivity, adaptive_refinement, kelly_threshold, max_cells,
          triangulation, dof_handler, dofs_per_block, global_partitioning,
          dirichlet_bcs, constraints, jacobian_matrix,
          jacobian_preconditioner_matrix, jacobian_op,
          jacobian_preconditioner_op, solution, solution_dot,
          distributed_solution, distributed_solution_dot, sol_tr, sol_dot_tr,
          pc, call, n_assemblies, twin>>

----------------------------------------------------------------------------
\* Bounds of the model.

\* Mesh changes in one run.
MaxGen == 2
\* Entries of the vectors the integrator passes in are 0..MaxVal.
MaxVal == 1
\* Times the integrator evaluates at are 0..MaxTime.
MaxTime == 1
\* Per-cell error indicators are 0..MaxEst.
MaxEst == 2
\* setup_jacobian calls between two reinit's of the matrices.
MaxAssemblies == 2
\* Worker processes are 1..NProcs.
NProcs == 2
\* "Maximum number of cells" is -1..MaxCells.
MaxCells == 1
\* Adaptation checks of the two runs that are compared.
MaxChecks == 3

\* Program constants.
Mu == 1
FirstMaxSteps == 30
FirstRestart == 30
RefinedRestart == 50
PrecScale == 2

SolverTolerance == "1e-8"
Vals == 0 .. MaxVal
Times == 0 .. MaxTime
Alphas == {1, PrecScale}
Workers == 1 .. NProcs
\* Thresholds that some indicator can exceed.
Thresholds == 0 .. (MaxEst - 1)
CellBudgets == (-1) .. MaxCells

----------------------------------------------------------------------------
\* Arithmetic helpers.

Min(a, b) == IF a < b THEN a ELSE b

Abs(a) == IF a < 0 THEN -a ELSE a

RECURSIVE MaxOver(_, _)
MaxOver(S, f) ==
  IF S = {} THEN 0
  ELSE LET x == CHOOSE e \in S : TRUE
           m == MaxOver(S \ {x}, f)
       IN IF f[x] > m THEN f[x] ELSE m

----------------------------------------------------------------------------
\* The discretization a mesh carries.

NU(m) == m.gen + 2

NP(m) == m.gen + 1

NDofs(m) == NU(m) + NP(m)

Cells(m) == 1 .. (m.gen + 1)

\* cell->get_dof_indices: local 1, 2 are velocity unknowns, local 3 is pressure.
CellDofs(m, c) == <<c, c + 1, NU(m) + c>>

MeshOf(t) == [gen |-> t.gen, hanging |-> t.hanging]

ZeroVec(n) == [j \in 1 .. n |-> 0]

ZeroMat(n) == [i \in 1 .. n |-> [j \in 1 .. n |-> 0]]

\* Vectors the integrator hands in: constant ones, and ones alternating
\* between two values.
ConstVecs(n) == {[j \in 1 .. n |-> a] : a \in Vals}

PatternVecs(n) ==
  {[j \in 1 .. n |-> IF j % 2 = 1 THEN a ELSE b] : a \in Vals, b \in Vals}

DirichletValue(t) == t

ForcingValue(t) == t

ConstrainedDofs(m) ==
  {1} \cup (IF m.hanging THEN {NU(m), NDofs(m)} ELSE {})

\* constraints.clear(); make_hanging_node_constraints;
\* interpolate_boundary_values; close().
MakeConstraints(m, t) ==
  [j \in ConstrainedDofs(m) |->
     IF j = 1 THEN [col |-> 0, inhom |-> DirichletValue(t)]
     ELSE [col |-> j - 1, inhom |-> 0]]

is_constrained(c, j) == j \in DOMAIN c

\* constraints.distribute(v)
Distribute(c, v) ==
  [j \in DOMAIN v |->
     IF is_constrained(c, j)
     THEN (IF c[j].col = 0 THEN 0 ELSE v[c[j].col]) + c[j].inhom
     ELSE v[j]]

\* The rows a local row is scattered to by distribute_local_to_global.
Resolve(c, j) ==
  IF ~is_constrained(c, j) THEN {j}
  ELSE IF c[j].col = 0 THEN {} ELSE {c[j].col}

----------------------------------------------------------------------------
\* Shape functions of one cell at its quadrature point (JxW = 1).

phi_u(k) == IF k <= 2 THEN 1 ELSE 0

grads_phi_u(k) == IF k = 1 THEN -1 ELSE IF k = 2 THEN 1 ELSE 0

sym_grads_phi_u(k) == grads_phi_u(k)

div_phi_u(k) == grads_phi_u(k)

phi_p(k) == IF k = 3 THEN 1 ELSE 0

Local == (1 .. 3) \X (1 .. 3)

\* cell_matrix(i,j)
cell_matrix(alpha) ==
  [e \in Local |->
     alpha * phi_u(e[1]) * phi_u(e[2])
     + Mu * sym_grads_phi_u(e[1]) * sym_grads_phi_u(e[2])
     - div_phi_u(e[1]) * phi_p(e[2])
     - phi_p(e[1]) * div_phi_u(e[2])]

\* cell_prec(i,j), in units of 1/PrecScale
cell_prec(alpha) ==
  [e \in Local |->
     (PrecScale \div alpha) * phi_u(e[1]) * phi_u(e[2])
     + PrecScale * Mu * grads_phi_u(e[1]) * grads_phi_u(e[2])
     + (PrecScale \div Mu) * phi_p(e[1]) * phi_p(e[2])]

\* The entry of the global matrix that local entry (i, j) of cell x is added
\* to by constraints.distribute_local_to_global: a constrained row or column
\* is resolved to the unknown it hangs on, a Dirichlet one is dropped
\* (<<0, 0>>), and a constrained row keeps its diagonal entry.
ScatterTarget(m, c, x, i, j) ==
  LET gi == CellDofs(m, x)[i]
      gj == CellDofs(m, x)[j]
  IN IF gi = gj /\ is_constrained(c, gi) THEN <<gi, gi>>
     ELSE IF Resolve(c, gi) = {} \/ Resolve(c, gj) = {} THEN <<0, 0>>
     ELSE <<CHOOSE r \in Resolve(c, gi) : TRUE,
            CHOOSE r \in Resolve(c, gj) : TRUE>>

\* The loop over the cells, unrolled: step k adds local entry (i, j) of cell x,
\* k = 9 (x - 1) + 3 (i - 1) + j, to the matrix `into`.
RECURSIVE ScatterMatrixUpTo(_, _, _, _, _)
ScatterMatrixUpTo(k, into, m, c, loc) ==
  IF k = 0 THEN into
  ELSE LET x == ((k - 1) \div 9) + 1
           i == (((k - 1) % 9) \div 3) + 1
           j == ((k - 1) % 3) + 1
           t == ScatterTarget(m, c, x, i, j)
           v == IF is_constrained(c, t[1]) THEN Abs(loc[<<i, j>>])
                ELSE loc[<<i, j>>]
           prev == ScatterMatrixUpTo(k - 1, into, m, c, loc)
       IN IF t = <<0, 0>> THEN prev
          ELSE [prev EXCEPT ![t[1]][t[2]] = @ + v]

ScatterMatrix(into, m, c, loc) ==
  ScatterMatrixUpTo(9 * Cardinality(Cells(m)), into, m, c, loc)

\* jacobian_matrix.set(j, j, 1.0) on every constrained unknown.
SetConstrainedDiagonal(mat, c) ==
  [i \in DOMAIN mat |->
     [j \in DOMAIN mat[i] |->
        IF i = j /\ is_constrained(c, i) THEN 1 ELSE mat[i][j]]]

\* assemble_jacobian_matrix: jacobian_matrix = 0, then the scatter.
AssembledJacobian(old, m, c, alpha) ==
  SetConstrainedDiagonal(
    ScatterMatrix(ZeroMat(NDofs(m)), m, c, cell_matrix(alpha)), c)

\* assemble_jacobian_matrix: the preconditioner matrix is scattered into as
\* it stands; only setup_dofs reinit's it.
AssembledPreconditioner(old, m, c, alpha) ==
  ScatterMatrix(old, m, c, cell_prec(alpha))

\* The block of a matrix on the unknowns S.
Block(mat, S) == [i \in S |-> [j \in S |-> mat[i][j]]]

VelocityDofs(m) == 1 .. NU(m)

PressureDofs(m) == (NU(m) + 1) .. NDofs(m)

\* jacobian_op: a view of the blocks of jacobian_matrix.
JacobianOp(m) == [built |-> TRUE, mesh |-> m]

\* jacobian_preconditioner_op: Amg_preconditioner and Mp_preconditioner are
\* initialized from the preconditioner matrix as it is at that moment.
PreconditionerOp(m, prec) ==
  [built |-> TRUE, mesh |-> m,
   Amg |-> Block(prec, VelocityDofs(m)),
   Mp |-> [j \in PressureDofs(m) |-> prec[j][j]]]

NoOp == [built |-> FALSE]

\* cell_rhs(i) of cell x of residual().
cell_rhs(m, x, u, ud, t, i) ==
  LET d == CellDofs(m, x)
      sols_dot == ud[d[1]] * phi_u(1) + ud[d[2]] * phi_u(2)
      grad_sols == u[d[1]] * sym_grads_phi_u(1) + u[d[2]] * sym_grads_phi_u(2)
      div_us == u[d[1]] * div_phi_u(1) + u[d[2]] * div_phi_u(2)
      ps == u[d[3]] * phi_p(3)
  IN sols_dot * phi_u(i)
     + Mu * grad_sols * sym_grads_phi_u(i)
     - ps * div_phi_u(i)
     - div_us * phi_p(i)
     - (IF i <= 2 THEN ForcingValue(t) * phi_u(i) ELSE 0)

\* The loop over the cells with distribute_local_to_global (cell_rhs, ...,
\* dst), unrolled: step k adds local row i of cell x, k = 3 (x - 1) + i.
RECURSIVE ScatterVectorUpTo(_, _, _, _, _, _)
ScatterVectorUpTo(k, m, c, u, ud, t) ==
  IF k = 0 THEN ZeroVec(NDofs(m))
  ELSE LET x == ((k - 1) \div 3) + 1
           i == ((k - 1) % 3) + 1
           rows == Resolve(c, CellDofs(m, x)[i])
           prev == ScatterVectorUpTo(k - 1, m, c, u, ud, t)
       IN IF rows = {} THEN prev
          ELSE [prev EXCEPT ![CHOOSE r \in rows : TRUE] =
                              @ + cell_rhs(m, x, u, ud, t, i)]

ScatterVector(m, c, u, ud, t) ==
  ScatterVectorUpTo(3 * Cardinality(Cells(m)), m, c, u, ud, t)

\* residual() without its last loop.
ConstrainedRows_Missing(dst, c, y, dy) == dst

\* The last loop of residual(): dst[j] = solution(j) - distributed_solution(j)
\* on every constrained unknown.
ConstrainedRows(dst, c, y, dy) ==
  [j \in DOMAIN dst |-> IF is_constrained(c, j) THEN y[j] - dy[j] ELSE dst[j]]

\* set_constrained_dofs_to_zero reaching the boundary unknowns only.
set_constrained_dofs_to_zero_Boundary(v, part, c) ==
  [j \in DOMAIN v |->
     IF j \in part /\ is_constrained(c, j) /\ c[j].col = 0 THEN 0 ELSE v[j]]

\* set_constrained_dofs_to_zero(v)
set_constrained_dofs_to_zero(v, part, c) ==
  [j \in DOMAIN v |-> IF j \in part /\ is_constrained(c, j) THEN 0 ELSE v[j]]

NoTransfer == [registered |-> FALSE]

----------------------------------------------------------------------------
\* setup_dofs(first_run), on the mesh as it stands.
setup_dofs(first_run) ==
  LET m == MeshOf(triangulation)
      n == NDofs(m)
  IN /\ dof_handler' = m
     /\ dofs_per_block' = <<NU(m), NP(m)>>
     /\ global_partitioning' = 1 .. n
     /\ constraints' = MakeConstraints(m, dirichlet_bcs)
     /\ jacobian_matrix' = ZeroMat(n)
     /\ jacobian_preconditioner_matrix' = ZeroMat(n)
     /\ n_assemblies' = 0
     /\ solution' = ZeroVec(n)
     /\ solution_dot' = ZeroVec(n)
     /\ distributed_solution' = ZeroVec(n)
     /\ distributed_solution_dot' = ZeroVec(n)

\* The state run() hands to the integrator: make_grid_fe(), setup_dofs(true),
\* constraints.distribute(solution).
InitMesh == [gen |-> 0, hanging |-> FALSE, flagged |-> FALSE]

\* The run started from the same state with kelly_threshold k and everything
\* else the same, as far as its adaptation checks go: its mesh generation and
\* its triggers, next to the triggers of this run (own), the checks both have
\* made, and whether their decisions have differed ("no", "now": at the last
\* check for the first time, "before").
TwinRun(k) ==
  [kelly_threshold |-> k, gen |-> 0, triggers |-> 0, own |-> 0, checks |-> 0,
   diverged |-> "no"]

InitWith(U, A, K, M) ==
  /\ use_space_adaptivity \in U
  /\ adaptive_refinement \in A
  /\ kelly_threshold \in K
  /\ max_cells \in M
  /\ triangulation = InitMesh
  /\ dof_handler = MeshOf(InitMesh)
  /\ dofs_per_block = <<NU(InitMesh), NP(InitMesh)>>
  /\ global_partitioning = 1 .. NDofs(InitMesh)
  /\ dirichlet_bcs = 0
  /\ constraints = MakeConstraints(MeshOf(InitMesh), 0)
  /\ jacobian_matrix = ZeroMat(NDofs(InitMesh))
  /\ jacobian_preconditioner_matrix = ZeroMat(NDofs(InitMesh))
  /\ n_assemblies = 0
  /\ jacobian_op = NoOp
  /\ jacobian_preconditioner_op = NoOp
  /\ solution = Distribute(constraints, ZeroVec(NDofs(InitMesh)))
  /\ solution_dot = ZeroVec(NDofs(InitMesh))
  /\ distributed_solution = ZeroVec(NDofs(InitMesh))
  /\ distributed_solution_dot = ZeroVec(NDofs(InitMesh))
  /\ sol_tr = NoTransfer
  /\ sol_dot_tr = NoTransfer
  /\ pc = "idle"
  /\ call = [op |-> "run"]
  /\ twin = TwinRun(kelly_threshold + 1)

Init == InitWith(BOOLEAN, BOOLEAN, {1}, {-1})

----------------------------------------------------------------------------
\* residual storing the constrained copy in the member its argument shadows.
residual_WritesMember(t, y, y_dot) ==
  /\ pc = "idle"
  /\ dirichlet_bcs' = t
  /\ constraints' = MakeConstraints(dof_handler, t)
  /\ distributed_solution' = Distribute(constraints', y)
  /\ distributed_solution_dot' = y_dot
  /\ solution' = distributed_solution'
  /\ call' = [op |-> "residual", t |-> t, y |-> y, y_dot |-> y_dot,
              dst |-> ZeroVec(Len(y)), ret |-> 0]
  /\ UNCHANGED <<params, twin, triangulation, discretization, matrices,
                 operators, solution_dot, transfers, pc>>

\* int residual(t, solution, solution_dot, dst)
residual(t, y, y_dot) ==
  /\ pc = "idle"
  /\ dirichlet_bcs' = t
  /\ constraints' = MakeConstraints(dof_handler, t)
  /\ distributed_solution' = Distribute(constraints', y)
  /\ distributed_solution_dot' = y_dot
  /\ call' = [op |-> "residual", t |-> t, y |-> y, y_dot |-> y_dot,
              dst |-> ConstrainedRows(
                        ScatterVector(dof_handler, constraints',
                                      distributed_solution',
                                      distributed_solution_dot', t),
                        constraints', y, distributed_solution'),
              ret |-> 0]
  /\ UNCHANGED <<params, twin, triangulation, discretization, matrices,
                 operators, solution, solution_dot, transfers, pc>>

\* int setup_jacobian(t, src_yy, src_yp, residual, alpha), which is
\* assemble_jacobian_matrix(t, src_yy, src_yp, alpha).
setup_jacobian(t, src_yy, src_yp, alpha) ==
  /\ pc = "idle"
  /\ n_assemblies < MaxAssemblies
  /\ dirichlet_bcs' = t
  /\ constraints' = MakeConstraints(dof_handler, t)
  /\ distributed_solution' = Distribute(constraints', src_yy)
  /\ distributed_solution_dot' = src_yp
  /\ jacobian_matrix' =
       AssembledJacobian(jacobian_matrix, dof_handler, constraints', alpha)
  /\ jacobian_preconditioner_matrix' =
       AssembledPreconditioner(jacobian_preconditioner_matrix, dof_handler,
                               constraints', alpha)
  /\ n_assemblies' = n_assemblies + 1
  /\ jacobian_op' = JacobianOp(dof_handler)
  /\ jacobian_preconditioner_op' =
       PreconditionerOp(dof_handler, jacobian_preconditioner_matrix')
  /\ call' = [op |-> "setup_jacobian", t |-> t, src_yy |-> src_yy,
              src_yp |-> src_yp, alpha |-> alpha, ret |-> 0]
  /\ UNCHANGED <<params, twin, triangulation, discretization, solution,
                 solution_dot, transfers, pc>>

----------------------------------------------------------------------------
\* What one Krylov run (S_inv.vmult) can end in: the outer FGMRES converges,
\* the outer FGMRES runs out of iterations, or the CG inside the
\* preconditioner runs out of iterations.  The last two throw
\* SolverControl::NoConvergence.
KrylovOutcomes == {"converged", "no_convergence", "inner_no_convergence"}

ThrowsNoConvergence(o) == o # "converged"

\* jacobian_matrix.m()
MatrixRows(mat) == Len(mat)

\* One Krylov run: its SolverControl, its restart width, the dst it starts
\* from, how it ends and the dst it leaves.
Attempt(cap, width, x0, o, x) ==
  [max_steps |-> cap, tolerance |-> SolverTolerance,
   max_n_tmp_vectors |-> width, x0 |-> x0, outcome |-> o, x |-> x]

\* solve_jacobian_system without its inner try block: a first failure is
\* reported at once.
JacobianSolve_NoRetry(dst0, part, c, mat, o1, x1, o2, x2) ==
  LET d0 == set_constrained_dofs_to_zero(dst0, part, c)
      a1 == Attempt(FirstMaxSteps, FirstRestart, d0, o1, x1)
  IN IF ~ThrowsNoConvergence(o1)
     THEN [attempts |-> <<a1>>, propagated |-> FALSE, ret |-> 0,
           dst |-> set_constrained_dofs_to_zero(x1, part, c)]
     ELSE [attempts |-> <<a1>>, propagated |-> FALSE, ret |-> 1, dst |-> x1]

\* The body of solve_jacobian_system: dst0 is the dst passed in, (o1, x1) and
\* (o2, x2) are the outcome of the first and of the refined Krylov run and
\* what each leaves in dst.
JacobianSolve(dst0, part, c, mat, o1, x1, o2, x2) ==
  LET d0 == set_constrained_dofs_to_zero(dst0, part, c)
      a1 == Attempt(FirstMaxSteps, FirstRestart, d0, o1, x1)
      a2 == Attempt(MatrixRows(mat), RefinedRestart, x1, o2, x2)
  IN IF ~ThrowsNoConvergence(o1)
     THEN [attempts |-> <<a1>>, propagated |-> FALSE, ret |-> 0,
           dst |-> set_constrained_dofs_to_zero(x1, part, c)]
     ELSE IF ~ThrowsNoConvergence(o2)
     THEN [attempts |-> <<a1, a2>>, propagated |-> FALSE, ret |-> 0,
           dst |-> set_constrained_dofs_to_zero(x2, part, c)]
     ELSE [attempts |-> <<a1, a2>>, propagated |-> FALSE, ret |-> 1,
           dst |-> x2]

\* int solve_jacobian_system(t, y, y_dot, residual, alpha, src, dst) const.
\* It runs against whatever jacobian_op and jacobian_preconditioner_op hold;
\* the integrator calls it only after a first setup_jacobian.
solve_jacobian_system(dst0, o1, x1, o2, x2) ==
  /\ pc = "idle"
  /\ jacobian_op.built
  /\ call' = [op |-> "solve_jacobian_system", dst0 |-> dst0,
              jacobian_op |-> jacobian_op,
              jacobian_preconditioner_op |-> jacobian_preconditioner_op,
              mesh |-> MeshOf(triangulation),
              constrained |-> DOMAIN constraints,
              out |-> JacobianSolve(dst0, global_partitioning, constraints,
                                    jacobian_matrix, o1, x1, o2, x2)]
  /\ UNCHANGED <<params, twin, triangulation, discretization, dirichlet_bcs,
                 constraints, matrices, operators, solution, solution_dot,
                 distributed_solution, distributed_solution_dot, transfers,
                 pc>>

\* The two blocks taken for one another.
BlockMask_Swapped(v, blocks) ==
  [j \in DOMAIN v |-> IF j <= blocks[1] THEN 0 ELSE 1]

\* diff_comps.block(0) = 1; diff_comps.block(1) = 0
BlockMask(v, blocks) == [j \in DOMAIN v |-> IF j <= blocks[1] THEN 1 ELSE 0]

\* VEC &differential_components() const
differential_components ==
  /\ pc = "idle"
  /\ call' = [op |-> "differential_components",
              ret |-> set_constrained_dofs_to_zero(
                        BlockMask(solution, dofs_per_block),
                        global_partitioning, constraints)]
  /\ UNCHANGED <<params, twin, triangulation, discretization, dirichlet_bcs,
                 constraints, matrices, operators, solution, solution_dot,
                 distributed_solution, distributed_solution_dot, transfers,
                 pc>>

----------------------------------------------------------------------------
\* solver_should_restart(t, step_number, h, solution, solution_dot)

\* The worker that owns cell c.
Owner(c) == ((c - 1) % NProcs) + 1

\* estimated_error_per_cell on worker w: KellyErrorEstimator fills the cells
\* of the worker's own subdomain and leaves the others 0.
LocalEstimate(est, w) == [c \in DOMAIN est |-> IF Owner(c) = w THEN est[c] ELSE 0]

linfty_norm(v) == MaxOver(DOMAIN v, [c \in DOMAIN v |-> Abs(v[c])])

\* The maximum of the first worker alone, without the reduction.
MpiMax_Rank0(local) == local[1]

\* Utilities::MPI::max(max_kelly, comm)
MpiMax(local) == MaxOver(Workers, local)

MaxKelly(est) == MpiMax([w \in Workers |-> linfty_norm(LocalEstimate(est, w))])

\* The comparison the other way round.
Exceeds_Below(max_kelly, threshold) == max_kelly < threshold

\* if (max_kelly > kelly_threshold)
Exceeds(max_kelly, threshold) == max_kelly > threshold

\* if (max_cells < 0) fixed_fraction else fixed_number
MarkingPolicy(cells) ==
  IF cells < 0 THEN "refine_and_coarsen_fixed_fraction"
  ELSE "refine_and_coarsen_fixed_number"

\* The marking call with a budget of 0 read as "no upper bound".
MarkingCall_ZeroUnbounded(cells) ==
  IF cells <= 0
  THEN <<"refine_and_coarsen_fixed_fraction", "top_fraction", "bottom_fraction">>
  ELSE <<"refine_and_coarsen_fixed_number", "top_fraction", "bottom_fraction",
         cells>>

\* The arguments of the marking call: fixed_fraction(top_fraction,
\* bottom_fraction), or fixed_number(top_fraction, bottom_fraction, max_cells).
MarkingCall(cells) ==
  IF cells < 0
  THEN <<"refine_and_coarsen_fixed_fraction", "top_fraction", "bottom_fraction">>
  ELSE <<"refine_and_coarsen_fixed_number", "top_fraction", "bottom_fraction",
         cells>>

\* The branch of worker w with its own maximum compared, unreduced.
WorkerBranch_Unreduced(est, w) ==
  Exceeds(linfty_norm(LocalEstimate(est, w)), kelly_threshold)

\* The branch worker w takes at if (max_kelly > kelly_threshold): its
\* max_kelly is the norm of its own indicators replaced by the maximum over
\* the communicator.
WorkerBranch(est, w) == Exceeds(MaxKelly(est), kelly_threshold)

\* SolutionTransfer::interpolate: the field given on mesh `from`, on mesh `to`.
Interpolate(data, from, to) ==
  [j \in 1 .. NDofs(to) |->
     IF j <= NU(to) THEN data[Min(j, NU(from))]
     ELSE data[NU(from) + Min(j - NU(to), NP(from))]]

\* Indicators: one cell at v, the others at w.
Estimates ==
  {[c \in Cells(triangulation) |-> IF c = k THEN v ELSE w] :
     k \in Cells(triangulation), v \in 0 .. MaxEst, w \in {0, kelly_threshold}}

\* use_space_adaptivity is off: return false.
SSR_Disabled(y, y_dot) ==
  /\ pc = "idle"
  /\ ~use_space_adaptivity
  /\ solution' = y
  /\ solution_dot' = y_dot
  /\ call' = [op |-> "solver_should_restart", y |-> y, y_dot |-> y_dot,
              branch |-> [w \in Workers |-> use_space_adaptivity],
              events |-> <<>>, ret |-> FALSE]
  /\ UNCHANGED <<params, triangulation, discretization, dirichlet_bcs,
                 constraints, matrices, operators, distributed_solution,
                 distributed_solution_dot, transfers, pc>>

\* The else branch taken after the cells have been marked.
SSR_NoRestart_Marked(y, y_dot, est) ==
  /\ pc = "idle"
  /\ use_space_adaptivity
  /\ ~Exceeds(MaxKelly(est), kelly_threshold)
  /\ solution' = y
  /\ solution_dot' = y_dot
  /\ distributed_solution' = Distribute(constraints, y)
  /\ triangulation' = [triangulation EXCEPT !.flagged = TRUE]
  /\ call' = [op |-> "solver_should_restart", y |-> y, y_dot |-> y_dot,
              estimated_error_per_cell |-> est, max_kelly |-> MaxKelly(est),
              branch |-> [w \in Workers |-> WorkerBranch(est, w)],
              events |-> <<"estimate">>, ret |-> FALSE]
  /\ UNCHANGED <<params, discretization, dirichlet_bcs, constraints, matrices,
                 operators, distributed_solution_dot, transfers, pc>>

\* The estimate, and the else branch of max_kelly > kelly_threshold.
SSR_NoRestart(y, y_dot, est) ==
  /\ pc = "idle"
  /\ use_space_adaptivity
  /\ ~Exceeds(MaxKelly(est), kelly_threshold)
  /\ solution' = y
  /\ solution_dot' = y_dot
  /\ distributed_solution' = Distribute(constraints, y)
  /\ call' = [op |-> "solver_should_restart", y |-> y, y_dot |-> y_dot,
              estimated_error_per_cell |-> est, max_kelly |-> MaxKelly(est),
              branch |-> [w \in Workers |-> WorkerBranch(est, w)],
              events |-> <<"estimate">>, ret |-> FALSE]
  /\ UNCHANGED <<params, triangulation, discretization, dirichlet_bcs,
                 constraints, matrices, operators, distributed_solution_dot,
                 transfers, pc>>

\* The estimate, and the marking of the cells when max_kelly > kelly_threshold.
SSR_Mark(y, y_dot, est) ==
  /\ pc = "idle"
  /\ use_space_adaptivity
  /\ Exceeds(MaxKelly(est), kelly_threshold)
  /\ triangulation.gen < MaxGen
  /\ solution' = y
  /\ solution_dot' = y_dot
  /\ distributed_solution' = Distribute(constraints, y)
  /\ triangulation' = [triangulation EXCEPT !.flagged = TRUE]
  /\ call' = [op |-> "solver_should_restart", y |-> y, y_dot |-> y_dot,
              estimated_error_per_cell |-> est, max_kelly |-> MaxKelly(est),
              branch |-> [w \in Workers |-> WorkerBranch(est, w)],
              policy |-> MarkingPolicy(max_cells),
              marking |-> MarkingCall(max_cells),
              events |-> <<"estimate", "mark">>]
  /\ pc' = "marked"
  /\ UNCHANGED <<params, discretization, dirichlet_bcs, constraints, matrices,
                 operators, distributed_solution_dot, transfers>>

Log(e) == [call EXCEPT !.events = Append(@, e)]

\* solver_should_restart registering y alone for the transfer.
SSR_Prepare_WithoutDot ==
  /\ pc = "marked"
  /\ sol_tr' = [registered |-> TRUE, mesh |-> dof_handler, data |-> solution]
  /\ call' = Log("snapshot")
  /\ pc' = "prepared"
  /\ UNCHANGED <<params, twin, triangulation, discretization, dirichlet_bcs,
                 constraints, matrices, operators, solution, solution_dot,
                 distributed_solution, distributed_solution_dot, sol_dot_tr>>

\* sol = solution; sol_dot = solution_dot; prepare_coarsening_and_refinement;
\* sol_tr.prepare_for_coarsening_and_refinement(sol), and the same for sol_dot.
SSR_Prepare ==
  /\ pc = "marked"
  /\ sol_tr' = [registered |-> TRUE, mesh |-> dof_handler, data |-> solution]
  /\ sol_dot_tr' = [registered |-> TRUE, mesh |-> dof_handler,
                    data |-> solution_dot]
  /\ call' = Log("snapshot")
  /\ pc' = "prepared"
  /\ UNCHANGED <<params, twin, triangulation, discretization, dirichlet_bcs,
                 constraints, matrices, operators, solution, solution_dot,
                 distributed_solution, distributed_solution_dot>>

\* execute_coarsening_and_refinement(), or refine_global(1).  A local
\* refinement may or may not leave hanging nodes.
SSR_Execute ==
  /\ pc = "prepared"
  /\ \E h \in BOOLEAN :
       triangulation' =
         [gen |-> triangulation.gen + 1,
          hanging |-> IF adaptive_refinement THEN h ELSE triangulation.hanging,
          flagged |-> FALSE]
  /\ call' = Log("execute")
  /\ pc' = "refined"
  /\ UNCHANGED <<params, twin, discretization, dirichlet_bcs, constraints,
                 matrices, operators, solution, solution_dot,
                 distributed_solution, distributed_solution_dot, transfers>>

\* solver_should_restart going on to the interpolation without setup_dofs.
SSR_SetupDofs_Skipped ==
  /\ pc = "refined"
  /\ call' = Log("setup_dofs")
  /\ pc' = "rebuilt"
  /\ UNCHANGED <<params, twin, triangulation, discretization, dirichlet_bcs,
                 constraints, matrices, operators, solution, solution_dot,
                 distributed_solution, distributed_solution_dot, transfers>>

\* setup_dofs(false)
SSR_SetupDofs ==
  /\ pc = "refined"
  /\ setup_dofs(FALSE)
  /\ call' = Log("setup_dofs")
  /\ pc' = "rebuilt"
  /\ UNCHANGED <<params, twin, triangulation, dirichlet_bcs, operators,
                 transfers>>

\* sol_tr.interpolate(tmp); sol_dot_tr.interpolate(tmp_dot); solution = tmp;
\* solution_dot = tmp_dot; constraints.distribute(solution); Barrier();
\* return true.
SSR_Transfer ==
  /\ pc = "rebuilt"
  /\ solution' =
       Distribute(constraints,
                  Interpolate(sol_tr.data, sol_tr.mesh, dof_handler))
  /\ solution_dot' = Interpolate(sol_dot_tr.data, sol_dot_tr.mesh, dof_handler)
  /\ call' = [op |-> call.op, y |-> call.y, y_dot |-> call.y_dot,
              estimated_error_per_cell |-> call.estimated_error_per_cell,
              max_kelly |-> call.max_kelly, branch |-> call.branch,
              policy |-> call.policy, marking |-> call.marking,
              events |-> call.events \o <<"interpolate", "overwrite">>,
              ret |-> TRUE]
  /\ sol_tr' = NoTransfer
  /\ sol_dot_tr' = NoTransfer
  /\ pc' = "idle"
  /\ UNCHANGED <<params, twin, triangulation, discretization, dirichlet_bcs,
                 constraints, matrices, operators, distributed_solution,
                 distributed_solution_dot>>

----------------------------------------------------------------------------
\* The integrator's calls.  Each takes the sets its arguments are drawn from;
\* the vectors have the shape create_new_vector() gives them.

NOwned == NDofs(dof_handler)

\* One vector: every entry MaxVal.
OneVec(n) == {[j \in 1 .. n |-> MaxVal]}

\* Vectors whose first entry (the Dirichlet unknown) differs from the rest,
\* and alternating vectors.
WideVecs(n) ==
  PatternVecs(n) \cup
  {[j \in 1 .. n |-> IF j = 1 THEN a ELSE b] : a \in Vals, b \in Vals}

\* Every cell at the largest indicator value.
HighEstimates == {[c \in Cells(triangulation) |-> MaxEst]}

Residual(T, Y, YD) ==
  \E t \in T, y \in Y, y_dot \in YD : residual(t, y, y_dot)

SetupJacobian(T, Y, A) ==
  \E t \in T, y \in Y, alpha \in A : setup_jacobian(t, y, y, alpha)

SolveJacobianSystem(D, X) ==
  \E dst0 \in D, o1 \in KrylovOutcomes, x1 \in X, o2 \in KrylovOutcomes,
     x2 \in X :
    solve_jacobian_system(dst0, o1, x1, o2, x2)

DifferentialComponents == differential_components

RestartDisabled(Y) ==
  \E y \in Y : SSR_Disabled(y, y) /\ UNCHANGED twin

RestartNotNeeded(Y, E) ==
  \E y \in Y, est \in E : SSR_NoRestart(y, y, est) /\ UNCHANGED twin

RestartMark(Y, E) ==
  \E y \in Y, est \in E : SSR_Mark(y, y, est) /\ UNCHANGED twin

\* The indicators the twin run can see once its mesh is another one.
TwinEstimates == {[c \in 1 .. (twin.gen + 1) |-> v] : v \in 0 .. MaxEst}

\* The twin run after its check on the indicators est2, made while this run
\* makes its check on est.
TwinChecked(est, est2) ==
  LET fire == Exceeds(MaxKelly(est2), twin.kelly_threshold)
      mine == Exceeds(MaxKelly(est), kelly_threshold)
  IN [kelly_threshold |-> twin.kelly_threshold,
      gen |-> IF fire THEN twin.gen + 1 ELSE twin.gen,
      triggers |-> IF fire THEN twin.triggers + 1 ELSE twin.triggers,
      own |-> IF mine THEN twin.own + 1 ELSE twin.own,
      checks |-> twin.checks + 1,
      diverged |-> IF twin.diverged # "no" THEN "before"
                   ELSE IF fire # mine THEN "now" ELSE "no"]

\* One adaptation check of both runs.  As long as their decisions have been
\* the same the two are in the same state and compute the same indicators;
\* after that the estimator works on another mesh and another solution.
PairedCheck(est, est2) ==
  /\ twin.checks < MaxChecks
  /\ twin.diverged = "no" => est2 = est
  /\ Exceeds(MaxKelly(est2), twin.kelly_threshold) => twin.gen < MaxGen
  /\ twin' = TwinChecked(est, est2)

PairedNotNeeded(Y, E) ==
  \E y \in Y, est \in E :
    \E est2 \in TwinEstimates \cup {est} :
      SSR_NoRestart(y, y, est) /\ PairedCheck(est, est2)

PairedMark(Y, E) ==
  \E y \in Y, est \in E :
    \E est2 \in TwinEstimates \cup {est} :
      SSR_Mark(y, y, est) /\ PairedCheck(est, est2)

\* The steps of a triggered adaptation, in the order of the code.
RestartSteps ==
  \/ SSR_Prepare
  \/ SSR_Execute
  \/ SSR_SetupDofs
  \/ SSR_Transfer

\* Any sequence of adapter calls.
Next ==
  \/ Residual({0}, ConstVecs(NOwned), OneVec(NOwned))
  \/ SetupJacobian({0}, OneVec(NOwned), {1})
  \/ SolveJacobianSystem(OneVec(NOwned), OneVec(NOwned))
  \/ DifferentialComponents
  \/ RestartDisabled(ConstVecs(NOwned))
  \/ RestartNotNeeded(ConstVecs(NOwned), Estimates)
  \/ RestartMark(ConstVecs(NOwned), Estimates)
  \/ RestartSteps

Spec == Init /\ [][Next]_vars

\* With use_space_adaptivity on and the mesh changing under the calls:
InitAdaptive == InitWith({TRUE}, BOOLEAN, {1}, {-1})

Adaptation ==
  \/ RestartMark(OneVec(NOwned), HighEstimates)
  \/ RestartSteps

\* residual on every time and vector of the bounds.
NextResidual ==
  \/ Residual(Times, WideVecs(NOwned), OneVec(NOwned))
  \/ SetupJacobian({0}, OneVec(NOwned), {1})
  \/ Adaptation

SpecResidual == InitAdaptive /\ [][NextResidual]_vars

\* setup_jacobian on every time, vector and alpha of the bounds.
NextJacobian ==
  \/ SetupJacobian(Times, ConstVecs(NOwned), Alphas)
  \/ Adaptation

SpecJacobian == InitAdaptive /\ [][NextJacobian]_vars

\* solve_jacobian_system on every guess and Krylov outcome of the bounds.
NextSolve ==
  \/ SetupJacobian({0}, OneVec(NOwned), {1})
  \/ SolveJacobianSystem(ConstVecs(NOwned), ConstVecs(NOwned))
  \/ Adaptation

SpecSolve == InitAdaptive /\ [][NextSolve]_vars

\* solver_should_restart under every threshold and cell budget of the bounds.
InitRestart == InitWith(BOOLEAN, BOOLEAN, Thresholds, CellBudgets)

NextRestart ==
  \/ SetupJacobian({0}, OneVec(NOwned), {1})
  \/ RestartDisabled(WideVecs(NOwned))
  \/ RestartNotNeeded(WideVecs(NOwned), Estimates)
  \/ RestartMark(OneVec(NOwned), Estimates)
  \/ RestartSteps

SpecRestart == InitRestart /\ [][NextRestart]_vars

\* Two runs that differ in kelly_threshold alone, check by check.
InitPair == InitWith({TRUE}, BOOLEAN, Thresholds, {-1})

NextPair ==
  \/ PairedNotNeeded(OneVec(NOwned), Estimates)
  \/ PairedMark(OneVec(NOwned), Estimates)
  \/ RestartSteps

SpecPair == InitPair /\ [][NextPair]_vars

----------------------------------------------------------------------------
\* Properties.

Returned(op) == pc = "idle" /\ call.op = op

Converged(a) == \E k \in 1 .. Len(a) : a[k].outcome = "converged"

\* C1: solve_jacobian_system makes one Krylov attempt with cap 30 and
\* tolerance 1e-8 and, exactly when that attempt does not converge, one more
\* with cap the dimension of the system; it returns 0 if an attempt
\* converged and 1 if both failed, and no non-convergence reaches the caller.
C1_TwoAttempts ==
  Returned("solve_jacobian_system") =>
    LET a == call.out.attempts
    IN /\ Len(a) \in {1, 2}
       /\ a[1].max_steps = 30
       /\ a[1].tolerance = "1e-8"
       /\ (Len(a) = 2) <=> (a[1].outcome # "converged")
       /\ Len(a) = 2 =>
            /\ a[2].max_steps = NDofs(dof_handler)
            /\ a[2].tolerance = "1e-8"
       /\ call.out.ret = (IF Converged(a) THEN 0 ELSE 1)
       /\ ~call.out.propagated

\* C1 witness: both attempts failed, one of them inside the preconditioner,
\* and the call returned 1.
C1_Witness ==
  /\ Returned("solve_jacobian_system")
  /\ Len(call.out.attempts) = 2
  /\ call.out.attempts[1].outcome = "inner_no_convergence"
  /\ call.out.attempts[2].outcome = "no_convergence"
  /\ call.out.ret = 1

\* C2: solve_jacobian_system never runs with operators that setup_jacobian
\* built on an older mesh than the current one.
C2_NoStaleSolve ==
  Returned("solve_jacobian_system") =>
    /\ call.jacobian_op.mesh = call.mesh
    /\ call.jacobian_preconditioner_op.mesh = call.mesh

\* C3: a second setup_jacobian with the arguments of the one before it, on
\* the same discretization, leaves both matrices and both operators as the
\* first one left them.
C3_SetupIdempotent ==
  [][(call.op = "setup_jacobian" /\ call' = call /\ dof_handler' = dof_handler)
       => /\ jacobian_matrix' = jacobian_matrix
          /\ jacobian_preconditioner_matrix' = jacobian_preconditioner_matrix
          /\ jacobian_op' = jacobian_op
          /\ jacobian_preconditioner_op' = jacobian_preconditioner_op]_vars

\* C4: solver_should_restart returns true exactly when space adaptivity is on
\* and some cell of some worker has an indicator above the threshold.
C4_RestartIff ==
  Returned("solver_should_restart") =>
    (call.ret = TRUE <=>
       /\ use_space_adaptivity
       /\ \E c \in DOMAIN call.estimated_error_per_cell :
            call.estimated_error_per_cell[c] > kelly_threshold)

\* C4 witness: true was returned although no cell of worker 1 is above the
\* threshold.
C4_Witness ==
  /\ Returned("solver_should_restart")
  /\ call.ret = TRUE
  /\ \A c \in DOMAIN call.estimated_error_per_cell :
       Owner(c) = 1 => call.estimated_error_per_cell[c] <= kelly_threshold

AdaptationOrder ==
  <<"estimate", "mark", "snapshot", "execute", "setup_dofs", "interpolate",
    "overwrite">>

IsConstant(v) == \A j \in DOMAIN v : v[j] = v[1]

IsPrefix(s, t) == Len(s) <= Len(t) /\ \A k \in 1 .. Len(s) : s[k] = t[k]

\* C5: in a triggered adaptation the snapshot of (y, y') is registered before
\* the mesh changes, the mesh changes once, the discretization is rebuilt
\* after that and before the interpolation, y and y' are overwritten with the
\* interpolated snapshot, and true is returned only after all of it, each
\* step once.
C5_AdaptationOrder ==
  (call.op = "solver_should_restart" /\ Len(call.events) >= 2) =>
    /\ IsPrefix(call.events, AdaptationOrder)
    /\ (pc = "idle") <=> (call.events = AdaptationOrder)
    /\ pc = "idle" => call.ret = TRUE
    /\ pc = "marked" => ~sol_tr.registered /\ ~sol_dot_tr.registered
    /\ pc \in {"prepared", "refined", "rebuilt"} =>
         /\ sol_tr.registered /\ sol_tr.data = call.y
         /\ sol_dot_tr.registered /\ sol_dot_tr.data = call.y_dot
    /\ pc = "prepared" =>
         sol_tr.mesh = MeshOf(triangulation) /\ dof_handler = sol_tr.mesh
    /\ pc = "refined" =>
         /\ triangulation.gen = sol_tr.mesh.gen + 1
         /\ dof_handler = sol_tr.mesh
    /\ pc = "rebuilt" =>
         /\ triangulation.gen = sol_tr.mesh.gen + 1
         /\ dof_handler = MeshOf(triangulation)
         /\ solution = ZeroVec(NDofs(dof_handler))
    /\ pc = "idle" =>
         /\ dof_handler = MeshOf(triangulation)
         /\ Len(solution) = NDofs(MeshOf(triangulation))
         /\ Len(solution_dot) = NDofs(MeshOf(triangulation))
         /\ IsConstant(call.y_dot) =>
              \A j \in DOMAIN solution_dot : solution_dot[j] = call.y_dot[1]
         /\ IsConstant(call.y) =>
              \A j \in DOMAIN solution \ DOMAIN constraints :
                 solution[j] = call.y[1]

\* C5 witness: a triggered adaptation returned true on a mesh with hanging
\* nodes, for a nonzero y'.
C5_Witness ==
  /\ Returned("solver_should_restart")
  /\ call.ret = TRUE
  /\ triangulation.hanging
  /\ call.y_dot[1] # 0

\* C6: whenever a call has returned, the numbering, the partitioning, the
\* constraint set, the matrices and the vectors are those of the current mesh.
C6_DiscretizationCurrent ==
  pc = "idle" =>
    LET m == MeshOf(triangulation)
    IN /\ dof_handler = m
       /\ dofs_per_block = <<NU(m), NP(m)>>
       /\ global_partitioning = 1 .. NDofs(m)
       /\ DOMAIN constraints = ConstrainedDofs(m)
       /\ Len(jacobian_matrix) = NDofs(m)
       /\ Len(jacobian_preconditioner_matrix) = NDofs(m)
       /\ Len(solution) = NDofs(m)
       /\ Len(solution_dot) = NDofs(m)
       /\ Len(distributed_solution) = NDofs(m)
       /\ Len(distributed_solution_dot) = NDofs(m)

\* C6 witness: a call returned after the mesh changed twice.
C6_Witness ==
  /\ pc = "idle"
  /\ triangulation.gen = 2
  /\ call.op = "residual"

\* y satisfies the constraints of mesh m at time t.
Satisfies(y, m, t) ==
  /\ y[1] = DirichletValue(t)
  /\ m.hanging => y[NU(m)] = y[NU(m) - 1] /\ y[NDofs(m)] = y[NDofs(m) - 1]

\* The value the constraints of mesh m at time t give unknown j of y.
ConstraintValue(y, m, t, j) == IF j = 1 THEN DirichletValue(t) ELSE y[j - 1]

\* C7: residual writes y[j] minus the constraint-consistent value of y at j on
\* every constrained unknown j, so 0 there when y satisfies the constraints
\* refreshed at time t.
C7_ConstrainedRows ==
  Returned("residual") =>
    /\ \A j \in ConstrainedDofs(dof_handler) :
         call.dst[j] = call.y[j] - ConstraintValue(call.y, dof_handler, call.t, j)
    /\ Satisfies(call.y, dof_handler, call.t) =>
         \A j \in ConstrainedDofs(dof_handler) : call.dst[j] = 0

\* C7 witness: a y that is not constant satisfies the constraints of a mesh
\* with hanging nodes, and the residual is nonzero on a free unknown.
C7_Witness ==
  /\ Returned("residual")
  /\ dof_handler.hanging
  /\ Satisfies(call.y, dof_handler, call.t)
  /\ call.y[2] # call.y[1]
  /\ \E j \in DOMAIN call.dst : call.dst[j] # 0

\* C8: when solve_jacobian_system returns 0, dst is 0 on every constrained
\* unknown; and the first Krylov attempt starts from a guess that is 0 there.
C8_ConstrainedZero ==
  Returned("solve_jacobian_system") =>
    /\ \A j \in ConstrainedDofs(MeshOf(triangulation)) :
         call.out.attempts[1].x0[j] = 0
    /\ call.out.ret = 0 =>
         \A j \in ConstrainedDofs(MeshOf(triangulation)) : call.out.dst[j] = 0

\* C8 witness: the retry converged on a mesh with hanging nodes, and both the
\* guess passed in and what the retry left are nonzero on constrained unknowns.
C8_Witness ==
  /\ Returned("solve_jacobian_system")
  /\ triangulation.hanging
  /\ call.out.ret = 0
  /\ Len(call.out.attempts) = 2
  /\ \A j \in ConstrainedDofs(MeshOf(triangulation)) :
       call.dst0[j] # 0 /\ call.out.attempts[2].x[j] # 0

\* C9: differential_components is shaped like solution, 1 on the velocity
\* unknowns that are not constrained and 0 on every other unknown.
C9_Mask ==
  Returned("differential_components") =>
    /\ DOMAIN call.ret = DOMAIN solution
    /\ \A j \in DOMAIN call.ret :
         call.ret[j] =
           IF j \in VelocityDofs(MeshOf(triangulation))
              /\ j \notin ConstrainedDofs(MeshOf(triangulation))
           THEN 1 ELSE 0

\* C9 witness: the mask of a mesh with a constrained unknown in each block.
C9_Witness ==
  /\ Returned("differential_components")
  /\ triangulation.hanging
  /\ \E j \in VelocityDofs(dof_handler) : call.ret[j] = 1

\* C10: residual changes nothing of the adapter's state: not the constraint
\* set, not the stored constraint-consistent copies, not the matrices and
\* operators, not the mesh.
C10_NoSideEffect ==
  [][call'.op = "residual" =>
       UNCHANGED <<constraints, distributed_solution, distributed_solution_dot,
                   jacobian_matrix, jacobian_preconditioner_matrix,
                   jacobian_op, jacobian_preconditioner_op, triangulation,
                   dof_handler>>]_vars

\* C10 as amended: residual leaves the mesh, the numbering and partitioning,
\* the matrices, the operators and the integrator's y and y' as they were,
\* also when y violates the constraints; it constrains the same unknowns as
\* before, and it does overwrite the boundary values of the constraint set
\* (those of time t) and the stored copies (y with the constraints applied,
\* and y').
C10_Frame ==
  [][call'.op = "residual" =>
       /\ UNCHANGED <<triangulation, dof_handler, dofs_per_block,
                      global_partitioning, jacobian_matrix,
                      jacobian_preconditioner_matrix, jacobian_op,
                      jacobian_preconditioner_op, solution, solution_dot>>
       /\ DOMAIN constraints' = DOMAIN constraints
       /\ constraints'[1].inhom = DirichletValue(call'.t)
       /\ distributed_solution_dot' = call'.y_dot
       /\ \A j \in DOMAIN call'.y :
            distributed_solution'[j] =
              IF j \in DOMAIN constraints
              THEN ConstraintValue(call'.y, dof_handler, call'.t, j)
              ELSE call'.y[j]]_vars

\* C10 witness: residual returned for a y that violates the constraints, with
\* the matrices assembled, and the stored copy differs from y.
C10_Witness ==
  /\ Returned("residual")
  /\ ~Satisfies(call.y, dof_handler, call.t)
  /\ jacobian_op.built
  /\ jacobian_op.mesh = dof_handler
  /\ distributed_solution # call.y
  /\ dirichlet_bcs # 0

\* C11: the snapshot of y registered for the transfer is y with the
\* constraints applied, not the y the integrator passed in.
C11_SnapshotConsistent ==
  (call.op = "solver_should_restart" /\ pc = "prepared") =>
    sol_tr.data = Distribute(constraints, call.y)

\* C12: when solver_should_restart returns true, the new y and the new y' both
\* have had the constraint set of the rebuilt discretization applied.
C12_ConstraintsReapplied ==
  (Returned("solver_should_restart") /\ call.ret = TRUE) =>
    /\ solution = Distribute(constraints, solution)
    /\ solution_dot = Distribute(constraints, solution_dot)

\* C13: the marking of a triggered adaptation is the fixed-fraction one
\* exactly when max_cells is negative and the fixed-number one, with the same
\* fractions and max_cells as its cap, for every other max_cells, 0 included.
C13_PolicyBySign ==
  (call.op = "solver_should_restart" /\ "marking" \in DOMAIN call) =>
    LET mk == call.marking
    IN /\ (max_cells < 0) <=> (mk[1] = "refine_and_coarsen_fixed_fraction")
       /\ (max_cells >= 0) <=> (mk[1] = "refine_and_coarsen_fixed_number")
       /\ mk[2] = "top_fraction"
       /\ mk[3] = "bottom_fraction"
       /\ max_cells < 0 => Len(mk) = 3
       /\ max_cells >= 0 => Len(mk) = 4 /\ mk[4] = max_cells
       /\ call.policy = mk[1]

\* C13 witness: an adaptation returned true under a cell budget of 0.
C13_Witness ==
  /\ Returned("solver_should_restart")
  /\ call.ret = TRUE
  /\ max_cells = 0
  /\ call.marking[1] = "refine_and_coarsen_fixed_number"

\* C14: after the same number of checks, the run with the larger threshold
\* has no more triggers than the run with the smaller one.
C14_Monotone ==
  pc = "idle" => twin.triggers <= twin.own

\* C14 as amended: as long as the decisions of the two runs have been the
\* same their triggers are equal and they are on the same mesh; at the first
\* check where they differ it is the run with the smaller threshold that
\* triggers; and the run with the larger threshold never has a trigger before
\* the other one has.
C14_MonotoneUntilDiverged ==
  /\ twin.kelly_threshold > kelly_threshold
  /\ twin.diverged = "no" =>
       /\ twin.triggers = twin.own
       /\ pc = "idle" => twin.gen = triangulation.gen
  /\ twin.diverged = "now" => twin.own = twin.triggers + 1
  /\ twin.triggers > 0 => twin.own > 0

\* C14 witness: the runs made the same decisions for two checks, one of them
\* a trigger, and differed at the third.
C14_Witness ==
  /\ pc = "idle"
  /\ twin.checks = 3
  /\ twin.diverged = "now"
  /\ twin.triggers = 1

\* C15: in one check every worker takes the same branch: all of them enter
\* the collective sequence, which then runs to its barrier and returns true,
\* or none does and false is returned.
C15_SameBranch ==
  (call.op = "solver_should_restart") =>
    /\ \A v \in Workers, w \in Workers : call.branch[v] = call.branch[w]
    /\ pc # "idle" => \A w \in Workers : call.branch[w]
    /\ pc = "idle" => \A w \in Workers : call.branch[w] = call.ret

\* C15 witness: every worker entered the collective sequence, which ran to
\* its end, although the cells of worker 1 are all at or below the threshold.
C15_Witness ==
  /\ Returned("solver_should_restart")
  /\ triangulation.gen >= 1
  /\ call.ret = TRUE
  /\ \A w \in Workers : call.branch[w]
  /\ linfty_norm(LocalEstimate(call.estimated_error_per_cell, 1))
       <= kelly_threshold

\* C16: a solver_should_restart that returns false leaves the mesh, the
\* numbering and partitioning, the matrices and operators and the y and y' it
\* was passed as they were, and leaves no cell flagged.
C16_FalseFrame ==
  [][(pc = "idle" /\ pc' = "idle" /\ call'.op = "solver_should_restart")
       => /\ call'.ret = FALSE
          /\ UNCHANGED <<triangulation, dof_handler, dofs_per_block,
                         global_partitioning, jacobian_matrix,
                         jacobian_preconditioner_matrix, jacobian_op,
                         jacobian_preconditioner_op>>
          /\ DOMAIN constraints' = DOMAIN constraints
          /\ solution' = call'.y
          /\ solution_dot' = call'.y_dot
          /\ ~triangulation'.flagged]_vars

\* C16 witness: false was returned with adaptivity on, on a refined mesh with
\* the matrices assembled, the largest indicator being the threshold itself
\* and y violating the constraints.
C16_Witness ==
  /\ Returned("solver_should_restart")
  /\ call.ret = FALSE
  /\ use_space_adaptivity
  /\ call.max_kelly = kelly_threshold
  /\ kelly_threshold > 0
  /\ triangulation.gen >= 1
  /\ jacobian_op.built
  /\ jacobian_op.mesh = dof_handler
  /\ ~Satisfies(call.y, dof_handler, dirichlet_bcs)

====
